---- MODULE Spec2Model ----
(***************************************************************************)
(* Model of workflows/generic_bump_version.py: the GenericVersion class    *)
(* (read the VERSION file, compute the next version, write it back) and    *)
(* the command-line block that drives it.                                  *)
(*                                                                         *)
(* A text is a sequence of one-character strings.  An attribute that may   *)
(* be absent (an annotation without assignment, lines 36 and 38) or a      *)
(* value that may be missing is a sequence of length 0 or 1.               *)
(***************************************************************************)
EXTENDS Integers, Sequences, FiniteSets, TLC

VARIABLES
    run,              \* "script": the __main__ block runs; "calls": a caller drives an instance
    pc,               \* position of the __main__ block (always "calls" when run = "calls")
    argv,             \* the command-line argument
    file,             \* content of the VERSION file
    file0,            \* content of the VERSION file when the run began (history)
    opens,            \* how often VERSION was opened in 'w' mode, saturating (history)
    current_version,  \* self.current_version, <<>> while the attribute is absent
    bump_type,        \* self.bump_type, "unset" while the attribute is absent
    next_version,     \* self.next_version, <<>> while the attribute is absent
    last,             \* the method called last
    arg,              \* the argument of that call, <<>> when it takes none
    raised,           \* the exception that call raised, "none" when it returned
    ret,              \* the text that call returned, <<>> when it returned None or raised
    stdout            \* what the script printed, <<>> when nothing

vars == <<run, pc, argv, file, file0, opens, current_version, bump_type,
          next_version, last, arg, raised, ret, stdout>>

----------------------------------------------------------------------------
(* Bounds of the model *)

\* Largest number a field of a well-formed input holds.
MaxNum == 10
\* The count of opens of VERSION in 'w' mode saturates here.
MaxOpens == 2

----------------------------------------------------------------------------
(* Python's str and int, as far as the script uses them *)

None == <<>>
Some(x) == <<x>>

Digits == <<"0", "1", "2", "3", "4", "5", "6", "7", "8", "9">>
IsDigit(c) == \E i \in 1..10 : Digits[i] = c
DigitVal(c) == (CHOOSE i \in 1..10 : Digits[i] = c) - 1
IsSpace(c) == c \in {" ", "\n", "\t"}

\* str.strip(): whitespace removed at both ends.
RECURSIVE lstrip(_)
lstrip(s) == IF s # <<>> /\ IsSpace(Head(s)) THEN lstrip(Tail(s)) ELSE s
RECURSIVE rstrip(_)
rstrip(s) ==
    IF s # <<>> /\ IsSpace(s[Len(s)]) THEN rstrip(SubSeq(s, 1, Len(s) - 1)) ELSE s
strip(s) == rstrip(lstrip(s))

\* str.find(c): 0-based index of the first c, -1 when there is none.
find(s, c) ==
    IF \E i \in 1..Len(s) : s[i] = c
    THEN (CHOOSE i \in 1..Len(s) : s[i] = c /\ \A j \in 1..(i - 1) : s[j] # c) - 1
    ELSE -1

\* str.split(c): the pieces between the occurrences of c, at least one piece.
RECURSIVE split(_, _)
split(s, c) ==
    LET i == find(s, c)
    IN  IF i = -1 THEN <<s>>
        ELSE <<SubSeq(s, 1, i)>> \o split(SubSeq(s, i + 2, Len(s)), c)

\* The digits of an int literal's body: '_' allowed singly between digits.
RECURSIVE DigitsValue(_, _)
DigitsValue(s, acc) ==
    IF s = <<>> THEN acc
    ELSE IF Head(s) = "_" THEN DigitsValue(Tail(s), acc)
    ELSE DigitsValue(Tail(s), 10 * acc + DigitVal(Head(s)))

IsIntBody(s) ==
    /\ s # <<>>
    /\ IsDigit(s[1])
    /\ IsDigit(s[Len(s)])
    /\ \A i \in 1..Len(s) : IsDigit(s[i]) \/ s[i] = "_"
    /\ \A i \in 1..(Len(s) - 1) : ~(s[i] = "_" /\ s[i + 1] = "_")

\* int(s) of a str: surrounding whitespace, then an optional sign, then the body.
\* ok = FALSE stands for ValueError.
int(s) ==
    LET t == strip(s)
        signed == t # <<>> /\ t[1] \in {"+", "-"}
        body == IF signed THEN Tail(t) ELSE t
    IN  IF ~IsIntBody(body) THEN [ok |-> FALSE, val |-> 0]
        ELSE [ok |-> TRUE,
              val |-> IF signed /\ t[1] = "-" THEN 0 - DigitsValue(body, 0)
                      ELSE DigitsValue(body, 0)]

\* str(n) of an int, as the f-strings format it.
RECURSIVE NatStr(_)
NatStr(n) ==
    IF n < 10 THEN <<Digits[n + 1]>>
    ELSE NatStr(n \div 10) \o <<Digits[(n % 10) + 1]>>
str(n) == IF n < 0 THEN <<"-">> \o NatStr(0 - n) ELSE NatStr(n)

----------------------------------------------------------------------------
(* class VersionType *)

\* VersionType._value2member_map_: the values the enum's members carry.
VersionTypeValues == {"major", "minor", "patch", "build"}

\* VersionType(value): the member carrying the value.
VersionType(value) ==
    CASE value = "major" -> "MAJOR"
      [] value = "minor" -> "MINOR"
      [] value = "patch" -> "PATCH"
      [] value = "build" -> "BUILD"

----------------------------------------------------------------------------
(* class GenericVersion: each method as a function of what it reads *)

\* A set_bump_type that compares without regard to case: "Major" passes.
set_bump_type_caseless(self_bump_type, value) ==
    LET lower == IF value = "Major" THEN "major" ELSE value
    IN  IF lower \notin VersionTypeValues
        THEN [raised |-> "ValueError", bump_type |-> self_bump_type]
        ELSE [raised |-> "none", bump_type |-> VersionType(lower)]

\* set_bump_type(bump_type): ValueError for a value no member carries, and
\* the attribute keeps what it held (self_bump_type); else the member.
set_bump_type(self_bump_type, value) ==
    IF value \notin VersionTypeValues
    THEN [raised |-> "ValueError", bump_type |-> self_bump_type]
    ELSE [raised |-> "none", bump_type |-> VersionType(value)]

\* _get_current_version(): open(filename, 'w') truncates the file (content is
\* what VERSION holds before the call), then read() on the write-only file
\* raises io.UnsupportedOperation, so nothing is returned.
_get_current_version(content) ==
    [raised |-> "UnsupportedOperation", file |-> <<>>, value |-> None]

\* __init__(): current_version is assigned only when the read returns;
\* bump_type and next_version are annotated, never assigned.
__init__(content) ==
    LET r == _get_current_version(content)
    IN  [raised |-> r.raised, file |-> r.file,
         current_version |-> IF r.raised = "none" THEN r.value ELSE None]

\* The assignment "a, b, c = fields" followed by the three int() calls:
\* ValueError unless there are exactly three fields and each is an int.
ParseFields(fields) ==
    IF Len(fields) # 3 THEN [ok |-> FALSE, major |-> 0, minor |-> 0, patch |-> 0]
    ELSE LET a == int(fields[1])
             b == int(fields[2])
             c == int(fields[3])
         IN  [ok |-> a.ok /\ b.ok /\ c.ok,
              major |-> a.val, minor |-> b.val, patch |-> c.val]

\* A _get_next_version_with_build whose PATCH case forgets "build = 1".
_get_next_version_with_build_keeps_build(current, self_bump_type) ==
    LET parts == split(current, "+")
        head == ParseFields(split(parts[1], "."))
        b == int(parts[2])
        Fmt(M, m, p, bd) == str(M) \o <<".">> \o str(m) \o <<".">> \o str(p)
                                \o <<"+">> \o str(bd)
    IN  IF ~head.ok \/ ~b.ok THEN [raised |-> "ValueError", value |-> None]
        ELSE IF self_bump_type = "unset"
        THEN [raised |-> "AttributeError", value |-> None]
        ELSE [raised |-> "none",
              value |-> Some(
                 CASE self_bump_type = "BUILD" -> Fmt(head.major, head.minor, head.patch, b.val + 1)
                   [] self_bump_type = "PATCH" -> Fmt(head.major, head.minor, head.patch + 1, b.val)
                   [] self_bump_type = "MINOR" -> Fmt(head.major, head.minor + 1, 0, 1)
                   [] self_bump_type = "MAJOR" -> Fmt(head.major + 1, 0, 0, 1))]

\* _get_next_version_with_build(): current is "M.m.p+b".
_get_next_version_with_build(current, self_bump_type) ==
    LET parts == split(current, "+")
        build_str == parts[2]
        head == ParseFields(split(parts[1], "."))
        b == int(build_str)
        major == head.major
        minor == head.minor
        patch == head.patch
        build == b.val
        Fmt(M, m, p, bd) == str(M) \o <<".">> \o str(m) \o <<".">> \o str(p)
                                \o <<"+">> \o str(bd)
    IN  IF ~head.ok \/ ~b.ok THEN [raised |-> "ValueError", value |-> None]
        ELSE IF self_bump_type = "unset"
        THEN [raised |-> "AttributeError", value |-> None]
        ELSE [raised |-> "none",
              value |-> Some(
                 CASE self_bump_type = "BUILD" -> Fmt(major, minor, patch, build + 1)
                   [] self_bump_type = "PATCH" -> Fmt(major, minor, patch + 1, 1)
                   [] self_bump_type = "MINOR" -> Fmt(major, minor + 1, 0, 1)
                   [] self_bump_type = "MAJOR" -> Fmt(major + 1, 0, 0, 1))]

\* _get_next_version_without_build(): current is "M.m.p".  The match has no
\* case for BUILD, which leaves the three numbers as parsed.
_get_next_version_without_build(current, self_bump_type) ==
    LET head == ParseFields(split(current, "."))
        major == head.major
        minor == head.minor
        patch == head.patch
        Fmt(M, m, p) == str(M) \o <<".">> \o str(m) \o <<".">> \o str(p)
    IN  IF ~head.ok THEN [raised |-> "ValueError", value |-> None]
        ELSE IF self_bump_type = "unset"
        THEN [raised |-> "AttributeError", value |-> None]
        ELSE [raised |-> "none",
              value |-> Some(
                 CASE self_bump_type = "PATCH" -> Fmt(major, minor, patch + 1)
                   [] self_bump_type = "MINOR" -> Fmt(major, minor + 1, 0)
                   [] self_bump_type = "MAJOR" -> Fmt(major + 1, 0, 0)
                   [] OTHER -> Fmt(major, minor, patch))]

\* get_next_version(): the shape is decided by find('+') > 0.
get_next_version(current, self_bump_type) ==
    IF find(current, "+") > 0
    THEN _get_next_version_with_build(current, self_bump_type)
    ELSE _get_next_version_without_build(current, self_bump_type)

\* write_new_version(): open(filename, 'w') truncates the file; then the
\* attribute is read (AttributeError while absent) and written.
write_new_version(self_next_version) ==
    IF self_next_version = None
    THEN [raised |-> "AttributeError", file |-> <<>>]
    ELSE [raised |-> "none", file |-> self_next_version[1]]

----------------------------------------------------------------------------
(* The inputs: version texts and command-line arguments *)

RECURSIVE Join(_, _)
Join(fields, c) ==
    IF Len(fields) = 0 THEN <<>>
    ELSE IF Len(fields) = 1 THEN fields[1]
    ELSE fields[1] \o <<c>> \o Join(Tail(fields), c)

\* The numbers the fields of the well-formed inputs hold: zero and the ones
\* around the step from one digit to two.
NumValues == {n \in 0..MaxNum : n = 0 \/ n >= 9}

UnbuiltTexts ==
    {Join(<<str(a), str(b), str(c)>>, ".") : a \in NumValues, b \in NumValues, c \in NumValues}
BuiltTexts ==
    {u \o <<"+">> \o str(d) : u \in UnbuiltTexts, d \in NumValues}

\* Fields that are no plain decimal literal.
OddFields ==
    {<<>>, <<"x">>, <<"-", "1">>, <<"+", "1">>, <<"0", "7">>, <<" ", "2">>,
     <<"1", "_", "0">>, <<"1", "_">>}

\* "1.2.3" and "1.2.3+5" with one field replaced by an odd one.
OneOddField ==
    LET base == <<<<"1">>, <<"2">>, <<"3">>, <<"5">>>>
        Put(i, o) == [base EXCEPT ![i] = o]
    IN  {Join(SubSeq(Put(i, o), 1, 3), ".") : i \in 1..3, o \in OddFields}
        \cup {Join(SubSeq(Put(i, o), 1, 3), ".") \o <<"+">> \o Put(i, o)[4] :
                 i \in 1..4, o \in OddFields}

\* Texts with the wrong number of fields or of '+' separators.
WrongCounts ==
    LET one == <<"1">>
        two == <<"1", ".", "2">>
        three == <<"1", ".", "2", ".", "3">>
        four == <<"1", ".", "2", ".", "3", ".", "4">>
    IN  {<<>>, <<".">>, <<"+">>, one, two, four,
         one \o <<"+", "5">>, two \o <<"+", "5">>, four \o <<"+", "5">>,
         three \o <<"+", "4", "+", "5">>, three \o <<"+", "4", ".", "5">>,
         three \o <<"+", "+", "5">>, <<"+">> \o three \o <<"+", "4">>,
         <<"+", "5">>}

Texts == UnbuiltTexts \cup BuiltTexts \cup OneOddField \cup WrongCounts

\* What the command line or a caller may pass as the bump type.
ArgStrings == VersionTypeValues \cup {"", "Major"}

Saturate(n) == IF n < MaxOpens THEN n + 1 ELSE n

----------------------------------------------------------------------------
(* The state machine *)

\* Either the script is about to run on a VERSION file, or a caller holds an
\* instance whose current_version is the stripped content of the file (the
\* instance a reader that returns the content would have built).
\* The script itself never gets past the construction (_get_current_version
\* always raises), so the three method calls are taken by the caller only.
Init ==
    /\ run \in {"script", "calls"}
    /\ \E t \in Texts :
          IF run = "script"
          THEN /\ file0 \in {t, t \o <<"\n">>}
               /\ argv \in {Some(a) : a \in ArgStrings}
               /\ pc = "parse_args"
               /\ current_version = None
          ELSE /\ file0 = strip(t) \o <<"\n">>
               /\ argv = None
               /\ pc = "calls"
               /\ current_version = Some(strip(t))
    /\ file = file0
    /\ opens = 0
    /\ bump_type = "unset"
    /\ next_version = None
    /\ last = "none"
    /\ arg = None
    /\ raised = "none"
    /\ ret = None
    /\ stdout = None

\* Where the script goes after a call: on, or out with the exception.
Goto(exc, next) ==
    IF run = "calls" THEN "calls" ELSE IF exc = "none" THEN next ELSE "exit"

\* parser.parse_args(): argparse exits for an argument outside choices.
ParseArgs ==
    /\ pc = "parse_args"
    /\ last' = "parse_args"
    /\ arg' = argv
    /\ raised' = IF argv[1] \in {"major", "minor", "patch", "build"}
                 THEN "none" ELSE "SystemExit"
    /\ pc' = Goto(raised', "construct")
    /\ ret' = None
    /\ UNCHANGED <<run, argv, file, file0, opens, current_version, bump_type,
                   next_version, stdout>>

\* version_handler = GenericVersion()
Construct ==
    /\ pc = "construct"
    /\ LET r == __init__(file)
       IN  /\ file' = r.file
           /\ current_version' = r.current_version
           /\ raised' = r.raised
           /\ pc' = Goto(r.raised, "set_bump_type")
    /\ opens' = Saturate(opens)
    /\ last' = "__init__"
    /\ arg' = None
    /\ ret' = None
    /\ UNCHANGED <<run, argv, file0, bump_type, next_version, stdout>>

\* version_handler.set_bump_type(version_type), or a caller's call.
SetBumpType ==
    /\ pc \in {"set_bump_type", "calls"}
    /\ \E a \in ArgStrings :
          /\ pc = "set_bump_type" => a = argv[1]
          /\ LET r == set_bump_type(bump_type, a)
             IN  /\ bump_type' = r.bump_type
                 /\ raised' = r.raised
                 /\ pc' = Goto(r.raised, "get_next_version")
          /\ arg' = Some(a)
    /\ last' = "set_bump_type"
    /\ ret' = None
    /\ UNCHANGED <<run, argv, file, file0, opens, current_version, next_version,
                   stdout>>

\* next_version = version_handler.get_next_version(), or a caller's call.
GetNextVersion ==
    /\ pc \in {"get_next_version", "calls"}
    /\ LET r == get_next_version(current_version[1], bump_type)
       IN  /\ next_version' = IF r.raised = "none" THEN r.value ELSE next_version
           /\ ret' = r.value
           /\ raised' = r.raised
           /\ pc' = Goto(r.raised, "write_new_version")
    /\ last' = "get_next_version"
    /\ arg' = None
    /\ UNCHANGED <<run, argv, file, file0, opens, current_version, bump_type,
                   stdout>>

\* version_handler.write_new_version(), or a caller's call.  In the script
\* print(next_version) follows: it prints what get_next_version returned.
WriteNewVersion ==
    /\ pc \in {"write_new_version", "calls"}
    /\ LET r == write_new_version(next_version)
       IN  /\ file' = r.file
           /\ raised' = r.raised
           /\ pc' = Goto(r.raised, "done")
           /\ stdout' = IF run = "script" /\ r.raised = "none" THEN ret ELSE stdout
    /\ opens' = Saturate(opens)
    /\ last' = "write_new_version"
    /\ arg' = None
    /\ ret' = None
    /\ UNCHANGED <<run, argv, file0, current_version, bump_type, next_version>>

Next == ParseArgs \/ Construct \/ SetBumpType \/ GetNextVersion \/ WriteNewVersion

Spec == Init /\ [][Next]_vars

----------------------------------------------------------------------------
(* The vocabulary of the claims: the version grammar and the bump table *)

HasPlus(t) == \E i \in 1..Len(t) : t[i] = "+"

\* A plain non-negative base-10 literal: digits only, at least one.
IsPlainNat(s) == s # <<>> /\ \A i \in 1..Len(s) : IsDigit(s[i])

RECURSIVE Value(_)
Value(s) ==
    IF s = <<>> THEN 0
    ELSE 10 * Value(SubSeq(s, 1, Len(s) - 1)) + DigitVal(s[Len(s)])

\* MAJOR.MINOR.PATCH
IsUnbuilt(t) ==
    /\ ~HasPlus(t)
    /\ LET f == split(t, ".") IN Len(f) = 3 /\ \A i \in 1..3 : IsPlainNat(f[i])

\* MAJOR.MINOR.PATCH+BUILD
IsBuilt(t) ==
    LET p == split(t, "+")
    IN  /\ Len(p) = 2
        /\ IsPlainNat(p[2])
        /\ LET f == split(p[1], ".") IN Len(f) = 3 /\ \A i \in 1..3 : IsPlainNat(f[i])

IsWellFormed(t) == IsUnbuilt(t) \/ IsBuilt(t)

\* The numbers of a well-formed text: three of them, or four with the build.
TupleOf(t) ==
    LET p == split(t, "+")
        f == split(p[1], ".")
        head == <<Value(f[1]), Value(f[2]), Value(f[3])>>
    IN  IF Len(p) = 2 THEN head \o <<Value(p[2])>> ELSE head

\* The bump table: the tuple a bump kind makes of a tuple.
Table(v, kind) ==
    LET tail == IF Len(v) = 4 THEN <<1>> ELSE <<>>
    IN  CASE kind = "MAJOR" -> <<v[1] + 1, 0, 0>> \o tail
          [] kind = "MINOR" -> <<v[1], v[2] + 1, 0>> \o tail
          [] kind = "PATCH" -> <<v[1], v[2], v[3] + 1>> \o tail
          [] kind = "BUILD" -> <<v[1], v[2], v[3], v[4] + 1>>

\* v comes strictly after w in the lexicographic order (same length).
LexGreater(v, w) ==
    \E i \in 1..Len(v) : v[i] > w[i] /\ \A j \in 1..(i - 1) : v[j] = w[j]

Kinds == {"MAJOR", "MINOR", "PATCH", "BUILD"}

\* The last call was get_next_version, on an instance with a current version.
AfterGetNext == last = "get_next_version" /\ current_version # None

\* The script has ended: it ran through, or an exception or argparse ended it.
Terminated == run = "script" /\ pc \in {"done", "exit"}

----------------------------------------------------------------------------
(* The claims *)

\* C1: for an Unbuilt current version the Build bump fails: get_next_version
\* raises and returns no next version (so nothing can be written).
C1_BuildOnUnbuiltFails ==
    (AfterGetNext /\ IsUnbuilt(current_version[1]) /\ bump_type = "BUILD")
        => (raised # "none" /\ ret = None /\ next_version = None)

\* C2: for a well-formed current version and a bump kind defined for its
\* shape, get_next_version returns a well-formed text of the same shape
\* whose numbers are exactly the bump table's row, and keeps it as next_version.
C2_TableResult ==
    (/\ AfterGetNext
     /\ IsWellFormed(current_version[1])
     /\ bump_type \in Kinds
     /\ ~(IsUnbuilt(current_version[1]) /\ bump_type = "BUILD"))
        => /\ raised = "none"
           /\ ret # None
           /\ next_version = ret
           /\ IsWellFormed(ret[1])
           /\ TupleOf(ret[1]) = Table(TupleOf(current_version[1]), bump_type)

\* C2's case: the Minor bump of 9.9.9+9 returned 9.10.0+1.
C2_Witness ==
    /\ AfterGetNext
    /\ current_version = Some(<<"9", ".", "9", ".", "9", "+", "9">>)
    /\ bump_type = "MINOR"
    /\ ret = Some(<<"9", ".", "1", "0", ".", "0", "+", "1">>)

\* C3: whenever get_next_version succeeds on a version, the returned tuple
\* comes strictly after the current one in the lexicographic order.
C3_Monotone ==
    (AfterGetNext /\ raised = "none" /\ IsWellFormed(current_version[1]))
        => /\ IsWellFormed(ret[1])
           /\ LexGreater(TupleOf(ret[1]), TupleOf(current_version[1]))

\* C4: whenever get_next_version succeeds, the returned text has a '+'
\* exactly when the current version text has one.
C4_ShapePreserved ==
    (AfterGetNext /\ raised = "none")
        => (HasPlus(ret[1]) <=> HasPlus(current_version[1]))

\* C5: get_next_version fails on every current version text that is neither
\* MAJOR.MINOR.PATCH nor MAJOR.MINOR.PATCH+BUILD with plain non-negative
\* decimal fields, and produces no next version.
C5_MalformedRejected ==
    (AfterGetNext /\ ~IsWellFormed(current_version[1]) /\ bump_type \in Kinds)
        => (raised # "none" /\ ret = None)

\* C6: after the construction current_version is the stripped prior content
\* of VERSION, and the file still holds that content.
C6_ReadKeepsFile ==
    last = "__init__"
        => /\ raised = "none"
           /\ current_version = Some(strip(file0))
           /\ file = file0

\* C7: when the content of VERSION matches neither accepted shape, the run of
\* the script leaves VERSION as it was, at every point of the run.
C7_FailureKeepsFile ==
    (run = "script" /\ ~IsWellFormed(strip(file0))) => file = file0

\* C8: the script opens VERSION for writing only after the bump has been
\* computed; and its run on a well-formed version with a bump kind defined
\* for the shape ends with VERSION written once, holding exactly the next
\* version, which is also what was printed.
C8_WrittenOnceAfterBump ==
    run = "script" =>
        /\ opens > 0 => next_version # None
        /\ (/\ Terminated
            /\ argv[1] \in VersionTypeValues
            /\ IsWellFormed(strip(file0))
            /\ ~(IsUnbuilt(strip(file0)) /\ argv[1] = "build"))
               => /\ pc = "done"
                  /\ opens = 1
                  /\ next_version # None
                  /\ file = next_version[1]
                  /\ stdout = next_version
                  /\ TupleOf(file) = Table(TupleOf(strip(file0)), VersionType(argv[1]))

\* C9, for the script: with an argument that is no bump kind the run ends at
\* the argument parser, before an instance is built, a version parsed or
\* VERSION opened.
C9_ScriptRejects ==
    (run = "script" /\ argv[1] \notin VersionTypeValues)
        => /\ pc \in {"parse_args", "exit"}
           /\ pc = "exit" => (last = "parse_args" /\ raised = "SystemExit")
           /\ file = file0
           /\ opens = 0
           /\ current_version = None
           /\ next_version = None
           /\ bump_type = "unset"

\* C9, for a call: set_bump_type with a value that is no bump kind raises
\* ValueError and changes neither bump_type nor next_version nor VERSION.
C9_CallRejects ==
    (last' = "set_bump_type" /\ arg'[1] \notin {"major", "minor", "patch", "build"})
        => /\ raised' = "ValueError"
           /\ bump_type' = bump_type
           /\ next_version' = next_version
           /\ file' = file
           /\ opens' = opens

\* C9: a bump kind string that is not one of "major", "minor", "patch",
\* "build" is rejected at once: set_bump_type raises and leaves bump_type as
\* it was, and the script rejects it before any parsing of the version and
\* before any access to VERSION.
C9_InvalidKindRejected == []C9_ScriptRejects /\ [][C9_CallRejects]_vars

\* C9's case: after bump_type was set to PATCH, set_bump_type("Major") raised
\* and bump_type is still PATCH.
C9_Witness ==
    /\ last = "set_bump_type"
    /\ arg = Some("Major")
    /\ raised = "ValueError"
    /\ bump_type = "PATCH"

\* C10: on an instance, write_new_version before any successful
\* get_next_version leaves VERSION as it was, and VERSION is only ever
\* changed to hold a text get_next_version can have returned.
C10_WriteNeedsNext ==
    run = "calls" =>
        /\ next_version = None => file = file0
        /\ file # file0 =>
              \E k \in Kinds :
                 get_next_version(current_version[1], k).value = Some(file)

====
